---- MODULE Spec2Model ----
(***************************************************************************)
(* Model of the defmt format-string parser (parser/src/lib.rs).            *)
(*                                                                         *)
(* A format string is a sequence of characters; every character is a       *)
(* one-character string, except the two non-ASCII characters "U+00E9"      *)
(* (2 bytes in UTF-8) and "U+20AC" (3 bytes in UTF-8).  The iterator       *)
(* `chars` of parse is the number `pos` of characters already consumed;    *)
(* `chars.as_str()` is Drop(s, pos).  Spans are byte offsets.              *)
(***************************************************************************)
EXTENDS Integers, Sequences, FiniteSets, TLC

VARIABLES frags, s, pos, params, pc, result, used, i, parameters, k

vars == <<frags, s, pos, params, pc, result, used, i, parameters, k>>

(***************************************************************************)
(* Bounds of the explored inputs.                                          *)
(***************************************************************************)
MaxFrags == 3
MaxDigits == 2

(***************************************************************************)
(* Characters, bytes and strings.                                          *)
(***************************************************************************)
Digits == {"0", "1", "2", "3", "4", "5", "6", "7", "8", "9"}

DigitVal(c) ==
  CASE c = "0" -> 0 [] c = "1" -> 1 [] c = "2" -> 2 [] c = "3" -> 3
    [] c = "4" -> 4 [] c = "5" -> 5 [] c = "6" -> 6 [] c = "7" -> 7
    [] c = "8" -> 8 [] c = "9" -> 9

\* is_digit: '0'..='9'
is_digit(c) == c \in Digits

\* UTF-8 encoding of a character, as the sequence of its bytes.  The byte
\* of an ASCII character is named by the character itself.
Utf8(c) ==
  CASE c = "U+00E9" -> <<"xC3", "xA9">>
    [] c = "U+20AC" -> <<"xE2", "x82", "xAC">>
    [] OTHER -> <<c>>

\* char::len_utf8
Utf8Len(c) == Len(Utf8(c))

RECURSIVE Bytes(_)
\* str::as_bytes
Bytes(str) == IF str = <<>> THEN <<>> ELSE Utf8(Head(str)) \o Bytes(Tail(str))

RECURSIVE ByteLen(_)
\* str::len (a length in bytes)
ByteLen(str) == IF str = <<>> THEN 0 ELSE Utf8Len(Head(str)) + ByteLen(Tail(str))

\* the rest of a string after n characters (Chars::as_str after n next())
Drop(str, n) == SubSeq(str, n + 1, Len(str))

\* str::starts_with
starts_with(str, pre) == Len(str) >= Len(pre) /\ SubSeq(str, 1, Len(pre)) = pre

\* str::is_char_boundary
is_char_boundary(str, b) == \E n \in 0..Len(str) : ByteLen(SubSeq(str, 1, n)) = b

\* number of leading ASCII digits (take_while(is_digit).count())
DigitRun(str) ==
  LET nd == {j \in 1..Len(str) : ~is_digit(str[j])}
  IN  IF nd = {} THEN Len(str) ELSE (CHOOSE j \in nd : \A m \in nd : j <= m) - 1

RECURSIVE StripZeros(_)
StripZeros(ds) == IF ds # <<>> /\ Head(ds) = "0" THEN StripZeros(Tail(ds)) ELSE ds

RECURSIVE LexLeq(_, _)
LexLeq(a, b) ==
  IF a = <<>> THEN TRUE
  ELSE IF DigitVal(Head(a)) # DigitVal(Head(b)) THEN DigitVal(Head(a)) < DigitVal(Head(b))
  ELSE LexLeq(Tail(a), Tail(b))

RECURSIVE DecValue(_)
DecValue(ds) ==
  IF ds = <<>> THEN 0 ELSE DecValue(SubSeq(ds, 1, Len(ds) - 1)) * 10 + DigitVal(ds[Len(ds)])

\* usize::MAX and u8::MAX, as decimal digits
USIZE_MAX == <<"1","8","4","4","6","7","4","4","0","7","3","7","0","9","5","5","1","6","1","5">>
U8_MAX == <<"2", "5", "5">>

None == -1

\* str::parse::<uN>() of a run of digits: None when the run is empty or the
\* value does not fit, the value otherwise.
ParseInt(ds, max) ==
  LET sig == StripZeros(ds)
  IN  IF ds = <<>> THEN None
      ELSE IF Len(sig) > Len(max) THEN None
      ELSE IF Len(sig) = Len(max) /\ ~LexLeq(sig, max) THEN None
      ELSE DecValue(sig)

(***************************************************************************)
(* Error messages (the back quotes of the source are written ').          *)
(***************************************************************************)
EOF == "expected '}' but string was terminated"
ErrOverflow == "position index must fit in 'usize'"
ErrArraySpec == "invalid array specifier"
ErrArrayLen == "expected array length literal"
ErrArrayClose == "missing ']}' after array length"
ErrInvalidArg == "invalid format argument"
ErrRangeClose == "missing '}' after bitfield range"
ErrConflict == "argument {} assigned more than one type"
ErrHead == "'{' must be followed by ':'"
ErrUnmatched == "unmatched '}' in format string"
ErrAt == "format string cannot contain the '@' character"
ErrUnused == "the format string contains unused positions"

Err(m) == [kind |-> "Err", msg |-> m, arg |-> None, parameters |-> <<>>]
ErrArg(m, a) == [kind |-> "Err", msg |-> m, arg |-> a, parameters |-> <<>>]
Ok(ps) == [kind |-> "Ok", msg |-> "", arg |-> None, parameters |-> ps]
Panic == [kind |-> "Panic", msg |-> "", arg |-> None, parameters |-> <<>>]
Pending == [kind |-> "Pending", msg |-> "", arg |-> None, parameters |-> <<>>]

(***************************************************************************)
(* Types.                                                                  *)
(***************************************************************************)
Ty(t) == [tag |-> t, a |-> 0, b |-> 0]
BitField(start, end) == [tag |-> "BitField", a |-> start, b |-> end]
Array(len) == [tag |-> "Array", a |-> len, b |-> 0]


\* The literal type tags of parse, in the order parse tries them.
Catalog == <<
  <<<<"?", "}">>, Ty("Format")>>,
  <<<<"s", "t", "r", "}">>, Ty("Str")>>,
  <<<<"i", "s", "t", "r", "}">>, Ty("IStr")>>,
  <<<<"u", "8", "}">>, Ty("U8")>>,
  <<<<"u", "1", "6", "}">>, Ty("U16")>>,
  <<<<"u", "2", "4", "}">>, Ty("U24")>>,
  <<<<"u", "3", "2", "}">>, Ty("U32")>>,
  <<<<"f", "3", "2", "}">>, Ty("F32")>>,
  <<<<"i", "8", "}">>, Ty("I8")>>,
  <<<<"i", "1", "6", "}">>, Ty("I16")>>,
  <<<<"i", "3", "2", "}">>, Ty("I32")>>,
  <<<<"b", "o", "o", "l", "}">>, Ty("Bool")>>,
  <<<<"[", "u", "8", "]", "}">>, Ty("Slice")>>,
  <<<<"u", "s", "i", "z", "e", "}">>, Ty("Usize")>>,
  <<<<"i", "s", "i", "z", "e", "}">>, Ty("Isize")>> >>

ARRAY_START == <<"[", "u", "8", ";">>

(***************************************************************************)
(* parse_usize: Some(value, consumed), None, or an error.                  *)
(***************************************************************************)
parse_usize(str) ==
  IF str # <<>> /\ is_digit(str[1])
  THEN LET end == DigitRun(str)
           x == ParseInt(SubSeq(str, 1, end), USIZE_MAX)
       IN  IF end = Len(str) THEN [kind |-> "Err", val |-> 0, used |-> 0, msg |-> EOF]
           ELSE IF x = None THEN [kind |-> "Err", val |-> 0, used |-> 0, msg |-> ErrOverflow]
           ELSE [kind |-> "Some", val |-> x, used |-> end, msg |-> ""]
  ELSE [kind |-> "None", val |-> 0, used |-> 0, msg |-> ""]

(***************************************************************************)
(* parse_range: Some(start..end, consumed), None, or a panic of the slice  *)
(* s[start_digits..start_digits + 2].                                      *)
(***************************************************************************)
\* RangeValid with an end of 32 let through
RangeValid_EndInclusive(start, end) == ~(end <= start) /\ ~(start >= 32 \/ end > 32)

\* the two checks on the parsed endpoints
RangeValid(start, end) == ~(end <= start) /\ ~(start >= 32 \/ end >= 32)

\* &s[from..to] is defined: both ends in range and on character boundaries
SliceOk(str, from, to) ==
  /\ from <= to
  /\ to <= ByteLen(str)
  /\ is_char_boundary(str, from)
  /\ is_char_boundary(str, to)

RangeNone == [kind |-> "None", start |-> 0, end |-> 0, used |-> 0]

parse_range(str) ==
  LET start_digits == DigitRun(str)
      start == ParseInt(SubSeq(str, 1, start_digits), U8_MAX)
      rest == Drop(str, start_digits + 2)
      end_digits == DigitRun(rest)
      end == ParseInt(SubSeq(rest, 1, end_digits), U8_MAX)
  IN  IF start = None THEN RangeNone
      ELSE IF ~SliceOk(str, start_digits, start_digits + 2)
        THEN [kind |-> "Panic", start |-> 0, end |-> 0, used |-> 0]
      ELSE IF SubSeq(Bytes(str), start_digits + 1, start_digits + 2) # <<".", ".">>
        THEN RangeNone
      ELSE IF end = None THEN RangeNone
      ELSE IF ~RangeValid(start, end) THEN RangeNone
      ELSE [kind |-> "Some", start |-> start, end |-> end,
            used |-> start_digits + end_digits + 2]

(***************************************************************************)
(* The type tag after ':' (parse, the arm Some(':')): the type and the     *)
(* number of characters consumed, an error, or a panic.                    *)
(***************************************************************************)
TyOk(ty, n) == [kind |-> "Ok", ty |-> ty, n |-> n, msg |-> ""]
TyErr(m) == [kind |-> "Err", ty |-> Ty("None"), n |-> 0, msg |-> m]
TyPanic == [kind |-> "Panic", ty |-> Ty("None"), n |-> 0, msg |-> ""]

ResolveArray(str) ==
  LET r1 == Drop(str, Len(ARRAY_START))
      ns == {j \in 1..Len(r1) : r1[j] # " "}
      len_index == (CHOOSE j \in ns : \A m \in ns : j <= m) - 1
      r2 == Drop(r1, len_index)
      pu == parse_usize(r2)
      r3 == Drop(r2, pu.used)
  IN  IF ns = {} THEN TyErr(ErrArraySpec)
      ELSE IF pu.kind = "Err" THEN TyErr(pu.msg)
      ELSE IF pu.kind = "None" THEN TyErr(ErrArrayLen)
      ELSE IF ~starts_with(r3, <<"]", "}">>) THEN TyErr(ErrArrayClose)
      ELSE TyOk(Array(pu.val), Len(ARRAY_START) + len_index + pu.used + 2)

ResolveRange(str) ==
  LET pr == parse_range(str)
  IN  IF pr.kind = "Panic" THEN TyPanic
      ELSE IF pr.kind = "None" THEN TyErr(ErrInvalidArg)
      ELSE IF ~starts_with(Drop(str, pr.used), <<"}">>) THEN TyErr(ErrRangeClose)
      ELSE TyOk(BitField(pr.start, pr.end), pr.used + 1)

ResolveType(str) ==
  LET hits == {j \in 1..Len(Catalog) : starts_with(str, Catalog[j][1])}
      first == CHOOSE j \in hits : \A m \in hits : j <= m
  IN  IF hits # {} THEN TyOk(Catalog[first][2], Len(Catalog[first][1]))
      ELSE IF starts_with(str, ARRAY_START) THEN ResolveArray(str)
      ELSE ResolveRange(str)


(***************************************************************************)
(* parse, the arm '{' of the scanner loop.                                 *)
(***************************************************************************)
Param(index, ty, span) == [index |-> index, ty |-> ty, span |-> span]

IsBitField(ty) == ty.tag = "BitField"

\* TypeConflict without the exception for two bit fields
TypeConflict_NoBitFieldException(ps, index, ty) ==
  /\ index # None
  /\ \E j \in 1..Len(ps) : ps[j].index = index /\ ps[j].ty # ty

\* the placeholder (index, ty) disagrees with an earlier placeholder
TypeConflict(ps, index, ty) ==
  /\ index # None
  /\ \E j \in 1..Len(ps) :
       /\ ps[j].index = index
       /\ ps[j].ty # ty
       /\ ~(IsBitField(ps[j].ty) /\ IsBitField(ty))

\* SpanOf counting characters instead of bytes
SpanOf_CharOffsets(str, p, p2) == <<p, p2>>

\* the span of a placeholder whose '{' is character p + 1 of str and whose
\* last character is character p2
SpanOf(str, p, p2) ==
  LET span_start == ByteLen(SubSeq(str, 1, p))
      len_start == ByteLen(Drop(str, p + 1))
      len == len_start - ByteLen(Drop(str, p2)) + 1
  IN  <<span_start, span_start + len>>

Step(kind, p, ps, res) == [kind |-> kind, pos |-> p, params |-> ps, result |-> res]

\* the arm Some(':') : the type tag, the type check and the push
FormatArgument(str, p, p1, index, ps) ==
  LET rt == ResolveType(Drop(str, p1 + 1))
      p2 == p1 + 1 + rt.n
  IN  IF rt.kind = "Panic" THEN Step("Panic", p, ps, Panic)
      ELSE IF rt.kind = "Err" THEN Step("Err", p, ps, Err(rt.msg))
      ELSE IF TypeConflict(ps, index, rt.ty) THEN Step("Err", p, ps, ErrArg(ErrConflict, index))
      ELSE Step("Param", p2, Append(ps, Param(index, rt.ty, SpanOf(str, p, p2))), Pending)

\* character p + 1 of str is '{'
OpenBrace(str, p, ps) ==
  LET pu == parse_usize(Drop(str, p + 1))
      index == IF pu.kind = "Some" THEN pu.val ELSE None
      p1 == p + 1 + pu.used
  IN  IF pu.kind = "Err" THEN Step("Err", p, ps, Err(pu.msg))
      ELSE IF p1 >= Len(str) THEN Step("Err", p, ps, Err(EOF))
      ELSE IF str[p1 + 1] = "{" THEN Step("Escape", p1 + 1, ps, Pending)
      ELSE IF str[p1 + 1] = ":" THEN FormatArgument(str, p, p1, index, ps)
      ELSE Step("Err", p, ps, Err(ErrHead))

\* CloseBrace that leaves the second '}' of an escape to the scanner
CloseBrace_OneChar(str, p, ps) ==
  IF p + 1 < Len(str) /\ str[p + 2] = "}"
  THEN Step("Escape", p + 1, ps, Pending)
  ELSE Step("Err", p, ps, Err(ErrUnmatched))

\* character p + 1 of str is '}'
CloseBrace(str, p, ps) ==
  IF p + 1 < Len(str) /\ str[p + 2] = "}"
  THEN Step("Escape", p + 2, ps, Pending)
  ELSE Step("Err", p, ps, Err(ErrUnmatched))

(***************************************************************************)
(* assign_indices.                                                         *)
(***************************************************************************)
\* NextFree that does not skip the used indices
NextFree_NoSkip(u, c) == c

RECURSIVE NextFree(_, _)
\* while used.contains(&i) { i += 1 }
NextFree(u, c) == IF c \in u THEN NextFree(u, c + 1) ELSE c

Parameter(index, ty, span) == [index |-> index, ty |-> ty, span |-> span]

\* AssignOne that puts the new Parameter in front of the list
AssignOne_Prepend(st, param) ==
  LET c == IF param.index # None THEN st.i ELSE NextFree(st.used, st.i)
      index == IF param.index # None THEN param.index ELSE c
  IN  [used |-> st.used \cup {index}, i |-> c,
       parameters |-> <<Parameter(index, param.ty, param.span)>> \o st.parameters]

\* one iteration of `for param in params`
AssignOne(st, param) ==
  LET c == IF param.index # None THEN st.i ELSE NextFree(st.used, st.i)
      index == IF param.index # None THEN param.index ELSE c
  IN  [used |-> st.used \cup {index}, i |-> c,
       parameters |-> Append(st.parameters, Parameter(index, param.ty, param.span))]

\* Contiguous that only looks at the first element of the set
Contiguous_FirstOnly(u) == u = {} \/ 0 \in u

\* for (i, j) in used.iter().enumerate() : no i # j
Contiguous(u) == \A j \in u : Cardinality({m \in u : m < j}) = j

Finish(u, ps) == IF Contiguous(u) THEN Ok(ps) ELSE Err(ErrUnused)


(***************************************************************************)
(* parse as a function of the whole string (the composition of the arms    *)
(* of the scanner loop and of assign_indices).                             *)
(***************************************************************************)
\* one iteration of `while let Some((span_start, c)) = chars.next()`
ScanChar(str, p, ps) ==
  LET c == str[p + 1]
  IN  IF c = "{" THEN OpenBrace(str, p, ps)
      ELSE IF c = "}" THEN CloseBrace(str, p, ps)
      ELSE IF c = "@" THEN Step("Err", p, ps, Err(ErrAt))
      ELSE Step("Literal", p + 1, ps, Pending)

RECURSIVE ScanFrom(_, _, _)
ScanFrom(str, p, ps) ==
  IF p >= Len(str) THEN Step("Scanned", p, ps, Pending)
  ELSE LET st == ScanChar(str, p, ps)
       IN  IF st.kind \in {"Err", "Panic"} THEN st ELSE ScanFrom(str, st.pos, st.params)

AssignInit == [used |-> {}, i |-> 0, parameters |-> <<>>]

RECURSIVE AssignFrom(_, _, _)
AssignFrom(st, ps, j) ==
  IF j > Len(ps) THEN st ELSE AssignFrom(AssignOne(st, ps[j]), ps, j + 1)

assign_indices(ps) ==
  LET st == AssignFrom(AssignInit, ps, 1) IN Finish(st.used, st.parameters)

parse(str) ==
  LET sc == ScanFrom(str, 0, <<>>)
  IN  IF sc.kind = "Scanned" THEN assign_indices(sc.params) ELSE sc.result

(***************************************************************************)
(* Inputs.  A format string is the concatenation of a few fragments.       *)
(***************************************************************************)
RECURSIVE Flatten(_)
Flatten(fs) == IF fs = <<>> THEN <<>> ELSE Head(fs) \o Flatten(Tail(fs))

SeqsUpTo(S, n) == UNION {[1..m -> S] : m \in 0..n}

Placeholder(idx, tag) == <<"{">> \o idx \o <<":">> \o tag

PlainPlaceholders ==
  {Placeholder(idx, tag) : idx \in {<<>>, <<"0">>, <<"1">>, <<"2">>},
                           tag \in {<<"u", "8", "}">>, <<"u", "1", "6", "}">>}}

BitFieldPlaceholders ==
  { Placeholder(<<"0">>, <<"0", ".", ".", "4", "}">>),
    Placeholder(<<"0">>, <<"2", ".", ".", "6", "}">>),
    Placeholder(<<>>, <<"0", ".", ".", "4", "}">>) }

OtherPlaceholders ==
  { Placeholder(<<>>, <<"[", "u", "8", ";", " ", "3", "]", "}">>),
    Placeholder(<<"0", "1">>, <<"?", "}">>) }

Escapes == {<<"{", "{">>, <<"}", "}">>}

Literals == {<<"a">>, <<"U+20AC">>}

Malformed == {<<"}">>, <<"@">>, <<"{", ":", "0">>}

Frags == PlainPlaceholders \cup BitFieldPlaceholders \cup OtherPlaceholders
           \cup Escapes \cup Literals \cup Malformed

\* Inputs around one bit-range placeholder:  prefix {idx:a sep b tail
RangeDigits == {"0", "1", "2", "3"}
RangeSeps == {<<>>, <<".">>, <<".", ".">>, <<".", ".", ".">>}
RangePrefixes == {<<>>, <<"U+00E9">>}
RangeIndexes == {<<>>, <<"0">>}
RangeTails == {<<>>, <<"}">>, <<"U+00E9">>, <<"U+20AC">>, <<"}", "@">>, <<"}", "}", "}">>}

(***************************************************************************)
(* The state machine: one action per arm of the scanner loop, one per      *)
(* iteration of the loop of assign_indices, one for its final check.       *)
(***************************************************************************)
Start(fs) ==
  /\ frags = fs
  /\ s = Flatten(fs)
  /\ pos = 0
  /\ params = <<>>
  /\ pc = "scan"
  /\ result = Pending
  /\ used = {}
  /\ i = 0
  /\ parameters = <<>>
  /\ k = 1

Init == \E fs \in SeqsUpTo(Frags, MaxFrags) : Start(fs)

InitRange ==
  \E pre \in RangePrefixes, idx \in RangeIndexes, tail \in RangeTails, sep \in RangeSeps :
    \E a, b \in SeqsUpTo(RangeDigits, MaxDigits) :
      Start(<<pre, Placeholder(idx, a \o sep \o b), tail>>)

\* Inputs of escapes, literal characters and a few placeholders
EscapeLiterals == {<<"0">>, <<"U+00E9">>}

EscapeFrags ==
  Escapes \cup EscapeLiterals \cup {<<"}">>, <<"@">>}
    \cup { Placeholder(<<>>, <<"u", "8", "}">>),
           Placeholder(<<"0">>, <<"u", "1", "6", "}">>),
           Placeholder(<<"1">>, <<"u", "8", "}">>),
           Placeholder(<<"0">>, <<"0", ".", ".", "4", "}">>) }

InitEscape == \E fs \in SeqsUpTo(EscapeFrags, MaxFrags) : Start(fs)

\* Inputs around the head of one placeholder:  prefix { digits next tail
HeadDigits == {"0", "1"}
HeadPrefixes == {<<>>, <<"U+00E9">>}
HeadNexts == {<<>>, <<"{">>, <<":">>, <<"}">>, <<"a">>}
HeadTails ==
  { <<>>, <<"u", "8", "}">>, <<"u", "8", "}", "}", "}">>, <<"u", "8", "}", "@">>,
    <<"}", "}">>, <<"@">> }

InitHead ==
  \E pre \in HeadPrefixes, nxt \in HeadNexts, tail \in HeadTails :
    \E idx \in SeqsUpTo(HeadDigits, MaxDigits) :
      Start(<<pre, <<"{">> \o idx \o nxt, tail>>)

\* the effect of one iteration of the scanner loop
Scanned(st) ==
  /\ pos' = st.pos
  /\ params' = st.params
  /\ result' = st.result
  /\ pc' = IF st.kind \in {"Err", "Panic"} THEN "done" ELSE "scan"
  /\ UNCHANGED <<frags, s, used, i, parameters, k>>

ScanOpenBrace ==
  /\ pc = "scan" /\ pos < Len(s) /\ s[pos + 1] = "{"
  /\ Scanned(OpenBrace(s, pos, params))

ScanCloseBrace ==
  /\ pc = "scan" /\ pos < Len(s) /\ s[pos + 1] = "}"
  /\ Scanned(CloseBrace(s, pos, params))

ScanAt ==
  /\ pc = "scan" /\ pos < Len(s) /\ s[pos + 1] = "@"
  /\ Scanned(Step("Err", pos, params, Err(ErrAt)))

ScanLiteral ==
  /\ pc = "scan" /\ pos < Len(s) /\ s[pos + 1] \notin {"{", "}", "@"}
  /\ Scanned(Step("Literal", pos + 1, params, Pending))

\* the end of the string: parse calls assign_indices
ScanEnd ==
  /\ pc = "scan" /\ pos >= Len(s)
  /\ pc' = "assign"
  /\ used' = AssignInit.used
  /\ i' = AssignInit.i
  /\ parameters' = AssignInit.parameters
  /\ k' = 1
  /\ UNCHANGED <<frags, s, pos, params, result>>

AssignStep ==
  /\ pc = "assign" /\ k <= Len(params)
  /\ LET st == AssignOne([used |-> used, i |-> i, parameters |-> parameters], params[k])
     IN  /\ used' = st.used
         /\ i' = st.i
         /\ parameters' = st.parameters
  /\ k' = k + 1
  /\ UNCHANGED <<frags, s, pos, params, pc, result>>

CheckContiguity ==
  /\ pc = "assign" /\ k > Len(params)
  /\ result' = Finish(used, parameters)
  /\ pc' = "done"
  /\ UNCHANGED <<frags, s, pos, params, used, i, parameters, k>>

Next ==
  \/ ScanOpenBrace
  \/ ScanCloseBrace
  \/ ScanAt
  \/ ScanLiteral
  \/ ScanEnd
  \/ AssignStep
  \/ CheckContiguity

Spec == Init /\ [][Next]_vars

SpecRange == InitRange /\ [][Next]_vars

SpecEscape == InitEscape /\ [][Next]_vars

SpecHead == InitHead /\ [][Next]_vars


(***************************************************************************)
(* Properties.                                                             *)
(***************************************************************************)
Range(f) == {f[j] : j \in DOMAIN f}

Placeholders == PlainPlaceholders \cup BitFieldPlaceholders \cup OtherPlaceholders

\* every fragment is a valid placeholder, an escape or a literal character
WellFormed(fs) ==
  Range(fs) \subseteq (Placeholders \cup Escapes \cup Literals \cup EscapeLiterals)

Indices(ps) == [j \in 1..Len(ps) |-> ps[j].index]
Types(ps) == [j \in 1..Len(ps) |-> ps[j].ty]

\* C1: on every successful parse, two output Parameters with the same final
\* index have equal types, unless both are bit fields.
C1_IndexTypeConsistent ==
  result.kind = "Ok" =>
    \A x, y \in 1..Len(result.parameters) :
      result.parameters[x].index = result.parameters[y].index =>
        \/ result.parameters[x].ty = result.parameters[y].ty
        \/ (IsBitField(result.parameters[x].ty) /\ IsBitField(result.parameters[y].ty))

\* C2: when a placeholder with explicit index n has been scanned and an
\* earlier placeholder with the same explicit index has a different type,
\* parse stops with the error 'argument n assigned more than one type' and
\* no parameter list, except when all such pairs are pairs of bit fields:
\* then the placeholder is accepted next to the earlier ones.
C2_ConflictRejected ==
  [][ LET pu == parse_usize(Drop(s, pos + 1))
          p1 == pos + 1 + pu.used
          rt == ResolveType(Drop(s, p1 + 1))
          differing == {j \in 1..Len(params) :
                          params[j].index = pu.val /\ params[j].ty # rt.ty}
          clash == \E j \in differing : ~(IsBitField(params[j].ty) /\ IsBitField(rt.ty))
      IN  ( /\ pc = "scan" /\ pos < Len(s) /\ s[pos + 1] = "{"
            /\ pu.kind = "Some" /\ p1 < Len(s) /\ s[p1 + 1] = ":" /\ rt.kind = "Ok"
            /\ differing # {} )
          => IF clash
             THEN /\ pc' = "done"
                  /\ result'.kind = "Err"
                  /\ result'.msg = ErrConflict
                  /\ result'.arg = pu.val
                  /\ result'.parameters = <<>>
             ELSE /\ pc' = "scan"
                  /\ result' = Pending
                  /\ Len(params') = Len(params) + 1
                  /\ SubSeq(params', 1, Len(params)) = params
                  /\ params'[Len(params')].index = pu.val
                  /\ params'[Len(params')].ty = rt.ty
    ]_vars

C2_Witness ==
  /\ pc = "done"
  /\ result.kind = "Err" /\ result.msg = ErrConflict /\ result.arg = 0
  /\ \E j \in 1..Len(params) : params[j].index = 0 /\ IsBitField(params[j].ty)

\* C3: once the scanner has consumed the whole string, parse returns Ok
\* exactly when the set of distinct final indices is {0, ..., N-1}, and
\* returns 'the format string contains unused positions' otherwise; every
\* successful output has such an index set.
C3_OkIffContiguous ==
  LET final == {parameters[j].index : j \in 1..Len(parameters)}
      out == {result.parameters[j].index : j \in 1..Len(result.parameters)}
  IN  /\ (pc = "done" /\ pos >= Len(s)) =>
            IF final = 0..(Cardinality(final) - 1)
            THEN result = Ok(parameters)
            ELSE result = Err(ErrUnused)
      /\ result.kind = "Ok" => out = 0..(Cardinality(out) - 1)

C3_Witness ==
  /\ pc = "done" /\ pos >= Len(s)
  /\ result = Err(ErrUnused)
  /\ 0 \in used

\* C4: in assign_indices a placeholder without explicit index receives the
\* smallest index that is >= the cursor and not used by an earlier
\* placeholder; implicit placeholders receive strictly increasing indices,
\* never an index an earlier placeholder has claimed, and the cursor never
\* decreases.
C4_ImplicitAllocation ==
  [][ (pc = "assign" /\ k <= Len(params)) =>
        /\ i' >= i
        /\ params[k].index = None =>
             LET idx == parameters'[k].index
             IN  /\ idx >= i
                 /\ idx \notin used
                 /\ \A n \in i..(idx - 1) : n \in used
                 /\ \A m \in 1..(k - 1) : parameters[m].index # idx
                 /\ \A m \in 1..(k - 1) :
                      params[m].index = None => parameters[m].index < idx
    ]_vars

C4_Witness ==
  /\ pc = "assign"
  /\ \E m, j \in 1..Len(parameters) :
       /\ m < j
       /\ params[m].index = 0
       /\ params[j].index = None
       /\ parameters[j].index = 1

\* C5: for every input, parse ends by returning Ok or an error value; no
\* input makes it panic.
C5_NeverPanics == pc = "done" => result.kind \in {"Ok", "Err"}


AllDigits(x) == x # <<>> /\ \A j \in 1..Len(x) : x[j] \in Digits

\* tag is the text of the type ty, as written between ':' and '}'
TagText(tag, ty) ==
  \/ \E j \in 1..Len(Catalog) : Catalog[j][1] = tag \o <<"}">> /\ Catalog[j][2] = ty
  \/ /\ ty.tag = "BitField"
     /\ \E n \in 1..(Len(tag) - 1) :
          /\ tag[n] = "." /\ tag[n + 1] = "."
          /\ AllDigits(SubSeq(tag, 1, n - 1))
          /\ AllDigits(SubSeq(tag, n + 2, Len(tag)))
          /\ DecValue(SubSeq(tag, 1, n - 1)) = ty.a
          /\ DecValue(SubSeq(tag, n + 2, Len(tag))) = ty.b
  \/ /\ ty.tag = "Array"
     /\ starts_with(tag, ARRAY_START)
     /\ tag[Len(tag)] = "]"
     /\ \E n \in Len(ARRAY_START)..(Len(tag) - 1) :
          /\ \A m \in (Len(ARRAY_START) + 1)..n : tag[m] = " "
          /\ AllDigits(SubSeq(tag, n + 1, Len(tag) - 1))
          /\ DecValue(SubSeq(tag, n + 1, Len(tag) - 1)) = ty.a

\* txt is the text of a placeholder of index p.index and type p.ty
PlaceholderText(txt, p) ==
  /\ Len(txt) >= 3
  /\ txt[1] = "{"
  /\ txt[Len(txt)] = "}"
  /\ \E c \in 2..(Len(txt) - 1) :
       /\ txt[c] = ":"
       /\ \/ c = 2
          \/ AllDigits(SubSeq(txt, 2, c - 1)) /\ DecValue(SubSeq(txt, 2, c - 1)) = p.index
       /\ TagText(SubSeq(txt, c + 1, Len(txt) - 1), p.ty)

\* C6: the span of every Parameter of a successful parse is a byte range
\* [start, end) of the input with start < end <= len, whose first byte is
\* '{', whose last byte is '}' and whose bytes are the text of the
\* placeholder, also after multi-byte literal characters.
C6_SpanExact ==
  result.kind = "Ok" =>
    \A j \in 1..Len(result.parameters) :
      LET p == result.parameters[j]
          start == p.span[1]
          end == p.span[2]
          B == Bytes(s)
      IN  /\ 0 <= start /\ start < end /\ end <= Len(B)
          /\ B[start + 1] = "{"
          /\ B[end] = "}"
          /\ PlaceholderText(SubSeq(B, start + 1, end), p)

C6_Witness ==
  /\ result.kind = "Ok"
  /\ Len(s) > 1 /\ s[1] = "U+20AC" /\ s[2] = "{"
  /\ Len(result.parameters) >= 1
  /\ result.parameters[1].span[1] = 3

\* C7: a placeholder {[index]:a..b} with decimal literals a and b is
\* accepted, with the type BitField(a..b), exactly when a < b and b < 32,
\* and is an error otherwise; every BitField of a successful output has
\* start < end < 32.
C7_RangeAccepted ==
  [][ LET rest == Drop(s, pos + 1)
          r2 == Drop(rest, DigitRun(rest) + 1)
          A == SubSeq(r2, 1, DigitRun(r2))
          r3 == Drop(r2, Len(A) + 2)
          B == SubSeq(r3, 1, DigitRun(r3))
          idx == IF DigitRun(rest) = 0 THEN None ELSE DecValue(SubSeq(rest, 1, DigitRun(rest)))
      IN  /\ ( /\ pc = "scan" /\ pos < Len(s) /\ s[pos + 1] = "{"
               /\ starts_with(Drop(rest, DigitRun(rest)), <<":">>)
               /\ A # <<>>
               /\ starts_with(Drop(r2, Len(A)), <<".", ".">>)
               /\ B # <<>>
               /\ starts_with(Drop(r3, Len(B)), <<"}">>)
               /\ \A j \in 1..Len(params) :
                    (idx # None /\ params[j].index = idx) => IsBitField(params[j].ty) )
             => IF DecValue(A) < DecValue(B) /\ DecValue(B) < 32
                THEN /\ pc' = "scan"
                     /\ Len(params') = Len(params) + 1
                     /\ params'[Len(params')].index = idx
                     /\ params'[Len(params')].ty = BitField(DecValue(A), DecValue(B))
                ELSE /\ pc' = "done"
                     /\ result'.kind = "Err"
          /\ result'.kind = "Ok" =>
               \A j \in 1..Len(result'.parameters) :
                 IsBitField(result'.parameters[j].ty) =>
                   /\ result'.parameters[j].ty.a < result'.parameters[j].ty.b
                   /\ result'.parameters[j].ty.b < 32
    ]_vars

C7_Witness ==
  /\ result.kind = "Ok"
  /\ \E j \in 1..Len(result.parameters) : result.parameters[j].ty = BitField(0, 31)

\* C8: an input that contains '@' at any position never parses: parse
\* returns an error and no Parameter list.
C8_AtIsAnError ==
  (pc = "done" /\ "@" \in Range(s)) => (result.kind = "Err" /\ result.parameters = <<>>)

\* an input that contains '@' is never parsed successfully
AtNeverOk == "@" \in Range(s) => result.kind # "Ok"

InsertAt(fs, j, e) == SubSeq(fs, 1, j) \o <<e>> \o SubSeq(fs, j + 1, Len(fs))

\* C9: the escapes '{{' and '}}' produce no Parameter and no error: an
\* input of literal characters and escapes parses to the empty list, an
\* escape inserted between the placeholders, escapes and literal characters
\* of an input changes neither the success of the parse nor the indices and
\* types of its Parameters, and a '}' met by the scanner that is not
\* followed by '}' is the error 'unmatched }'.
C9_EscapeFidelity ==
  [][ /\ (pc' = "done" /\ Range(frags) \subseteq (Escapes \cup Literals \cup EscapeLiterals))
           => result' = Ok(<<>>)
      /\ (pc' = "done" /\ WellFormed(frags))
           => \A j \in 0..Len(frags) : \A e \in Escapes :
                LET r2 == parse(Flatten(InsertAt(frags, j, e)))
                IN  /\ r2.kind = result'.kind
                    /\ Indices(r2.parameters) = Indices(result'.parameters)
                    /\ Types(r2.parameters) = Types(result'.parameters)
      /\ (pc = "scan" /\ pos + 1 < Len(s) /\ s[pos + 1] \in {"{", "}"} /\ s[pos + 2] = s[pos + 1])
           => (pc' = "scan" /\ pos' = pos + 2 /\ params' = params /\ result' = Pending)
      /\ (pc = "scan" /\ pos < Len(s) /\ s[pos + 1] = "}"
            /\ ~(pos + 1 < Len(s) /\ s[pos + 2] = "}"))
           => (pc' = "done" /\ result' = Err(ErrUnmatched))
    ]_vars

C9_Witness ==
  /\ pc = "done" /\ result.kind = "Ok"
  /\ Len(frags) = 3
  /\ frags[1] \in Placeholders /\ frags[2] = <<"}", "}">> /\ frags[3] \in Placeholders
  /\ Len(result.parameters) = 2

\* C10: a successful output has one Parameter per recognized placeholder,
\* in the order of the source text and not in index order: the spans of
\* consecutive Parameters are disjoint and their starts strictly increase.
C10_SourceOrder ==
  result.kind = "Ok" =>
    LET out == result.parameters
        ph == {j \in 1..Len(frags) : frags[j] \in Placeholders}
    IN  /\ Len(out) = Len(params)
        /\ \A j \in 1..Len(out) : out[j].span = params[j].span /\ out[j].ty = params[j].ty
        /\ \A j \in 1..(Len(out) - 1) :
             /\ out[j].span[1] < out[j + 1].span[1]
             /\ out[j].span[2] <= out[j + 1].span[1]
        /\ WellFormed(frags) =>
             /\ Len(out) = Cardinality(ph)
             /\ \A j \in ph :
                  out[Cardinality({m \in ph : m <= j})].span[1]
                    = ByteLen(Flatten(SubSeq(frags, 1, j - 1)))

C10_Witness ==
  /\ result.kind = "Ok"
  /\ Len(result.parameters) = 2
  /\ result.parameters[1].index = 1
  /\ result.parameters[2].index = 0


\* C11: a '{' is taken as the escape '{{' only when no index lies between
\* the two braces: after '{' and an optional decimal index only ':' makes a
\* placeholder, and '{', digits, '{' is not accepted as an escape (it is an
\* error, not a step that goes on without a Parameter).
C11_EscapeOnlyWithoutIndex ==
  [][ LET rest == Drop(s, pos + 1)
          d == DigitRun(rest)
          next == IF d < Len(rest) THEN rest[d + 1] ELSE "end of input"
      IN  (pc = "scan" /\ pos < Len(s) /\ s[pos + 1] = "{") =>
            /\ (pc' = "scan" /\ params' = params) => (d = 0 /\ next = "{")
            /\ (params' # params) => next = ":"
            /\ (d > 0 /\ next = "{") => (pc' = "done" /\ result'.kind = "Err")
    ]_vars

\* after '{' and an optional index, a Parameter is pushed only behind ':'
PlaceholderNeedsColon ==
  [][ LET rest == Drop(s, pos + 1)
          d == DigitRun(rest)
      IN  (pc = "scan" /\ pos < Len(s) /\ s[pos + 1] = "{" /\ params' # params)
            => (d < Len(rest) /\ rest[d + 1] = ":")
    ]_vars

====
